---- MODULE Spec2Model ----
(***************************************************************************)
(* Model of the request pipeline of the worker proxy: secret               *)
(* interpolation, global auth loading, config validation, legacy/modern    *)
(* auth merging, the two-tier authentication check and the header          *)
(* processing that precedes the backend fetch.                             *)
(*                                                                         *)
(* Strings are sequences of one-character strings, so that toLowerCase,    *)
(* trim, the regular expressions and String.replace are computed and not   *)
(* assumed.  "TAB" and "LF" stand for the characters 0x09 and 0x0A.        *)
(***************************************************************************)
EXTENDS Integers, Sequences, FiniteSets, TLC

----------------------------------------------------------------------------
(* Bounds of the model *)

\* longest list of auth entries in a global source or in authConfigs
MaxAuthEntries == 2
\* largest number of headers a request carries
MaxReqHeaders == 2
\* largest number of configured headers of a server
MaxHeaders == 2
\* largest number of pieces of a value given to interpolateSecret on its own
MaxPieces == 3

----------------------------------------------------------------------------
(* Characters and strings *)

UpperToLower == [c \in {"A", "K", "T", "X"} |->
                   CASE c = "A" -> "a" [] c = "K" -> "k"
                     [] c = "T" -> "t" [] c = "X" -> "x"]

LowerChar(c) == IF c \in DOMAIN UpperToLower THEN UpperToLower[c] ELSE c

\* String.prototype.toLowerCase
ToLowerCase(s) == [i \in 1..Len(s) |-> LowerChar(s[i])]

Letters == {"A", "K", "T", "X", "a", "k", "t", "x", "u", "h", "o", "r", "i",
            "z", "n", "s", "g", "M", "E", "R", "B", "w"}
Digits == {"0", "1"}

\* \w of the regular expressions
IsWordChar(c) == c \in Letters \cup Digits \cup {"_"}

\* [\w-] : characters of a secret name in SECRET_PATTERN
IsSecretNameChar(c) == IsWordChar(c) \/ c = "-"

\* the character class of HTTP tokens: letters, digits and the punctuation
\* of the regular expression (quote and backquote are not in the alphabet)
IsTokenChar(c) ==
    c \in Letters \cup Digits \cup
          {"!", "#", "$", "%", "&", "*", "+", ".", "^", "_", "|", "~", "-"}

\* characters removed by String.prototype.trim
IsWhiteSpace(c) == c \in {" ", "TAB", "LF"}

\* [\x00-\x08\x0A-\x1F\x7F] : control characters other than tab
IsControlChar(c) == c \in {"LF"}

\* s.trim() is the empty string
TrimIsEmpty(s) == \A i \in 1..Len(s) : IsWhiteSpace(s[i])

----------------------------------------------------------------------------
(* Optional values (undefined / defined) *)

None == [defined |-> FALSE]
Some(x) == [defined |-> TRUE, v |-> x]

\* a JSON value that is not a string (a number) where a string is expected
NotAString == <<"number">>

\* typeof value === 'string'
IsString(value) == value # NotAString

\* JavaScript truthiness of an optional string: undefined and '' are falsy
Truthy(o) == o.defined /\ o.v # <<>>

----------------------------------------------------------------------------
(* Secret interpolation *)

\* length of the longest run of [\w-] characters of v starting at position i
RECURSIVE NameRun(_, _)
NameRun(v, i) ==
    IF i <= Len(v) /\ IsSecretNameChar(v[i]) THEN 1 + NameRun(v, i + 1) ELSE 0

\* SECRET_PATTERN = /\$\{([\w-]+)\}/g matched at position i of v:
\* the length of the captured name, or 0 when there is no match at i
SECRET_PATTERN(v, i) ==
    IF /\ i + 1 <= Len(v)
       /\ v[i] = "$"
       /\ v[i + 1] = "{"
       /\ NameRun(v, i + 2) >= 1
       /\ i + 2 + NameRun(v, i + 2) <= Len(v)
       /\ v[i + 2 + NameRun(v, i + 2)] = "}"
    THEN NameRun(v, i + 2)
    ELSE 0

\* env[secretName]
EnvLookup(env, name) == IF name \in DOMAIN env THEN Some(env[name]) ELSE None

\* value.replace(SECRET_PATTERN, callback) from position i on.
\* The result is [ok |-> TRUE, s |-> string], or [ok |-> FALSE, missing |->
\* secretName] when the callback throws 'Missing required secret: secretName'.
RECURSIVE ReplaceFrom(_, _, _, _)
ReplaceFrom(v, i, env, isAuth) ==
    IF i > Len(v) THEN [ok |-> TRUE, s |-> <<>>]
    ELSE LET n == SECRET_PATTERN(v, i) IN
         IF n = 0
         THEN LET rest == ReplaceFrom(v, i + 1, env, isAuth) IN
              IF rest.ok THEN [ok |-> TRUE, s |-> <<v[i]>> \o rest.s]
                         ELSE rest
         ELSE LET secretValue == EnvLookup(env, SubSeq(v, i + 2, i + 1 + n))
                  match == SubSeq(v, i, i + 2 + n)
              IN IF ~secretValue.defined /\ isAuth
                 THEN [ok |-> FALSE, missing |-> SubSeq(v, i + 2, i + 1 + n)]
                 ELSE LET rest == ReplaceFrom(v, i + 3 + n, env, isAuth) IN
                      IF rest.ok
                      THEN [ok |-> TRUE,
                            s |-> (IF secretValue.defined THEN secretValue.v
                                                          ELSE match) \o rest.s]
                      ELSE rest

\* mutant: in non-strict mode no placeholder is substituted
interpolateSecret_KeepAll(value, env, isAuth) ==
    IF isAuth THEN ReplaceFrom(value, 1, env, isAuth) ELSE [ok |-> TRUE, s |-> value]

\* mutant: the result of the replacement is scanned once more
interpolateSecret_Twice(value, env, isAuth) ==
    LET once == ReplaceFrom(value, 1, env, isAuth) IN
    IF once.ok THEN ReplaceFrom(once.s, 1, env, isAuth) ELSE once

interpolateSecret(value, env, isAuth) == ReplaceFrom(value, 1, env, isAuth)

----------------------------------------------------------------------------
(* The Headers object of the platform: a map from lower-cased names to    *)
(* values; get, has and set throw a TypeError on a name that is not an     *)
(* HTTP token.                                                             *)

IsHeaderName(name) == name # <<>> /\ \A i \in 1..Len(name) : IsTokenChar(name[i])

\* Headers.get(name): null (None) when absent
HeadersGet(headers, name) ==
    IF ToLowerCase(name) \in DOMAIN headers
    THEN Some(headers[ToLowerCase(name)]) ELSE None

\* Headers.has(name)
HeadersHas(headers, name) == ToLowerCase(name) \in DOMAIN headers

\* a header value is normalised when stored: leading and trailing white
\* space is removed
RECURSIVE StripLeading(_)
StripLeading(s) ==
    IF s # <<>> /\ IsWhiteSpace(Head(s)) THEN StripLeading(Tail(s)) ELSE s

RECURSIVE StripTrailing(_)
StripTrailing(s) ==
    IF s # <<>> /\ IsWhiteSpace(s[Len(s)])
    THEN StripTrailing(SubSeq(s, 1, Len(s) - 1)) ELSE s

NormalizeValue(value) == StripTrailing(StripLeading(value))

\* Headers.set(name, value)
HeadersSet(headers, name, value) ==
    [k \in DOMAIN headers \cup {ToLowerCase(name)} |->
        IF k = ToLowerCase(name) THEN NormalizeValue(value) ELSE headers[k]]

\* new Headers()
EmptyHeaders == [k \in {} |-> <<>>]

----------------------------------------------------------------------------
(* Authentication checks *)

\* mutant: the values are compared ignoring case
EntryMatches_IgnoreValueCase(headers, config) ==
    LET headerValue == HeadersGet(headers, config.header) IN
    IF ~Truthy(headerValue) THEN FALSE
    ELSE ToLowerCase(headerValue.v) = ToLowerCase(config.value)

\* the callback of authConfigs.some(...): the request carries config.header
\* with a truthy value equal to config.value
EntryMatches(headers, config) ==
    LET headerValue == HeadersGet(headers, config.header) IN
    IF ~Truthy(headerValue) THEN FALSE ELSE headerValue.v = config.value

\* Array.prototype.some over the entries from index i, in order; stops at the
\* first match, throws when headers.get is called with an invalid name
RECURSIVE SomeEntryMatches(_, _, _)
SomeEntryMatches(headers, authConfigs, i) ==
    IF i > Len(authConfigs) THEN [threw |-> FALSE, result |-> FALSE]
    ELSE IF ~IsHeaderName(authConfigs[i].header) THEN [threw |-> TRUE, result |-> FALSE]
    ELSE IF EntryMatches(headers, authConfigs[i]) THEN [threw |-> FALSE, result |-> TRUE]
    ELSE SomeEntryMatches(headers, authConfigs, i + 1)

checkAuth(headers, authConfigs) ==
    IF Len(authConfigs) = 0 THEN [threw |-> FALSE, result |-> TRUE]
    ELSE SomeEntryMatches(headers, authConfigs, 1)

checkGlobalAuth(headers, globalAuthConfigs) ==
    IF Len(globalAuthConfigs) = 0 THEN [threw |-> FALSE, result |-> TRUE]
    ELSE SomeEntryMatches(headers, globalAuthConfigs, 1)

Denied == [threw |-> FALSE, authenticated |-> FALSE, usedGlobalAuth |-> FALSE]
Threw == [threw |-> TRUE, authenticated |-> FALSE, usedGlobalAuth |-> FALSE]
Allowed(byGlobal) == [threw |-> FALSE, authenticated |-> TRUE, usedGlobalAuth |-> byGlobal]

\* mutant: an empty per-server list allows even when global auth failed
checkTwoTierAuth_FallOpen(headers, globalAuthConfigs, perServerAuthConfigs) ==
    LET globalAuthConfigured == Len(globalAuthConfigs) > 0
        globalAuthResult == checkGlobalAuth(headers, globalAuthConfigs)
        perServerAuthResult == checkAuth(headers, perServerAuthConfigs)
    IN IF globalAuthConfigured /\ globalAuthResult.threw THEN Threw
       ELSE IF globalAuthConfigured /\ globalAuthResult.result THEN Allowed(TRUE)
       ELSE IF Len(perServerAuthConfigs) = 0 THEN Allowed(FALSE)
       ELSE IF perServerAuthResult.threw THEN Threw
       ELSE IF perServerAuthResult.result THEN Allowed(FALSE)
       ELSE Denied

\* mutant: the case of nothing configured is missing
checkTwoTierAuth_NoOpenCase(headers, globalAuthConfigs, perServerAuthConfigs) ==
    LET globalAuthConfigured == Len(globalAuthConfigs) > 0
        globalAuthResult == checkGlobalAuth(headers, globalAuthConfigs)
        perServerAuthResult == checkAuth(headers, perServerAuthConfigs)
    IN IF globalAuthConfigured /\ globalAuthResult.threw THEN Threw
       ELSE IF globalAuthConfigured /\ globalAuthResult.result THEN Allowed(TRUE)
       ELSE IF Len(perServerAuthConfigs) > 0 /\ perServerAuthResult.threw THEN Threw
       ELSE IF Len(perServerAuthConfigs) > 0 /\ perServerAuthResult.result THEN Allowed(FALSE)
       ELSE Denied

\* mutant: a global match does not skip the per-server check
checkTwoTierAuth_NoOverride(headers, globalAuthConfigs, perServerAuthConfigs) ==
    LET globalAuthConfigured == Len(globalAuthConfigs) > 0
        globalAuthResult == checkGlobalAuth(headers, globalAuthConfigs)
        perServerAuthResult == checkAuth(headers, perServerAuthConfigs)
    IN IF globalAuthConfigured /\ globalAuthResult.threw THEN Threw
       ELSE IF /\ globalAuthConfigured /\ globalAuthResult.result
               /\ Len(perServerAuthConfigs) = 0 THEN Allowed(TRUE)
       ELSE IF ~globalAuthConfigured /\ Len(perServerAuthConfigs) = 0 THEN Allowed(FALSE)
       ELSE IF Len(perServerAuthConfigs) > 0 /\ perServerAuthResult.threw THEN Threw
       ELSE IF Len(perServerAuthConfigs) > 0 /\ perServerAuthResult.result
       THEN Allowed(globalAuthConfigured /\ globalAuthResult.result)
       ELSE Denied

\* mutant: a failed global check denies without the per-server fallback
checkTwoTierAuth_NoFallback(headers, globalAuthConfigs, perServerAuthConfigs) ==
    LET globalAuthConfigured == Len(globalAuthConfigs) > 0
        globalAuthResult == checkGlobalAuth(headers, globalAuthConfigs)
        perServerAuthResult == checkAuth(headers, perServerAuthConfigs)
    IN IF globalAuthConfigured /\ globalAuthResult.threw THEN Threw
       ELSE IF globalAuthConfigured /\ globalAuthResult.result THEN Allowed(TRUE)
       ELSE IF globalAuthConfigured THEN Denied
       ELSE IF Len(perServerAuthConfigs) = 0 THEN Allowed(FALSE)
       ELSE IF perServerAuthResult.threw THEN Threw
       ELSE IF perServerAuthResult.result THEN Allowed(FALSE)
       ELSE Denied

\* mutant: an authenticated request is credited to global auth whenever
\* global auth is configured
checkTwoTierAuth_CreditsGlobal(headers, globalAuthConfigs, perServerAuthConfigs) ==
    LET globalAuthConfigured == Len(globalAuthConfigs) > 0
        globalAuthResult == checkGlobalAuth(headers, globalAuthConfigs)
        perServerAuthResult == checkAuth(headers, perServerAuthConfigs)
    IN IF globalAuthConfigured /\ globalAuthResult.threw THEN Threw
       ELSE IF globalAuthConfigured /\ globalAuthResult.result THEN Allowed(TRUE)
       ELSE IF ~globalAuthConfigured /\ Len(perServerAuthConfigs) = 0 THEN Allowed(FALSE)
       ELSE IF Len(perServerAuthConfigs) > 0 /\ perServerAuthResult.threw THEN Threw
       ELSE IF Len(perServerAuthConfigs) > 0 /\ perServerAuthResult.result
       THEN Allowed(globalAuthConfigured)
       ELSE Denied

checkTwoTierAuth(headers, globalAuthConfigs, perServerAuthConfigs) ==
    LET globalAuthConfigured == Len(globalAuthConfigs) > 0
        globalAuthResult == checkGlobalAuth(headers, globalAuthConfigs)
        perServerAuthResult == checkAuth(headers, perServerAuthConfigs)
    IN IF globalAuthConfigured /\ globalAuthResult.threw THEN Threw
       ELSE IF globalAuthConfigured /\ globalAuthResult.result THEN Allowed(TRUE)
       ELSE IF ~globalAuthConfigured /\ Len(perServerAuthConfigs) = 0 THEN Allowed(FALSE)
       ELSE IF Len(perServerAuthConfigs) > 0 /\ perServerAuthResult.threw THEN Threw
       ELSE IF Len(perServerAuthConfigs) > 0 /\ perServerAuthResult.result THEN Allowed(FALSE)
       ELSE Denied

----------------------------------------------------------------------------
(* Legacy / modern auth merging *)

AUTHORIZATION == <<"A", "u", "t", "h", "o", "r", "i", "z", "a", "t", "i", "o", "n">>

\* serverConfig.authConfigs ? [...serverConfig.authConfigs] : []
AuthConfigsOrEmpty(serverConfig) ==
    IF serverConfig.authConfigs.defined THEN serverConfig.authConfigs.v ELSE <<>>

\* mutant: the legacy entry is put in front of the authConfigs entries
mergeAuthConfigs_LegacyFirst(serverConfig) ==
    LET authConfigs == AuthConfigsOrEmpty(serverConfig)
        legacyHeaderName == IF Truthy(serverConfig.authHeader)
                            THEN serverConfig.authHeader.v ELSE AUTHORIZATION
        headerExists == \E i \in 1..Len(authConfigs) :
            ToLowerCase(authConfigs[i].header) = ToLowerCase(legacyHeaderName)
    IN IF Truthy(serverConfig.auth) /\ ~headerExists
       THEN <<[header |-> legacyHeaderName, value |-> serverConfig.auth.v]>> \o authConfigs
       ELSE authConfigs

\* mutant: the legacy entry is appended even when its header name is taken
mergeAuthConfigs_AlwaysAppend(serverConfig) ==
    LET authConfigs == AuthConfigsOrEmpty(serverConfig)
        legacyHeaderName == IF Truthy(serverConfig.authHeader)
                            THEN serverConfig.authHeader.v ELSE AUTHORIZATION
    IN IF Truthy(serverConfig.auth)
       THEN Append(authConfigs, [header |-> legacyHeaderName, value |-> serverConfig.auth.v])
       ELSE authConfigs

mergeAuthConfigs(serverConfig) ==
    LET authConfigs == AuthConfigsOrEmpty(serverConfig)
        legacyHeaderName == IF Truthy(serverConfig.authHeader)
                            THEN serverConfig.authHeader.v ELSE AUTHORIZATION
        headerExists == \E i \in 1..Len(authConfigs) :
            ToLowerCase(authConfigs[i].header) = ToLowerCase(legacyHeaderName)
    IN IF Truthy(serverConfig.auth) /\ ~headerExists
       THEN Append(authConfigs, [header |-> legacyHeaderName, value |-> serverConfig.auth.v])
       ELSE authConfigs

----------------------------------------------------------------------------
(* Config validation *)

Valid == [isValid |-> TRUE, message |-> ""]
Invalid(msg) == [isValid |-> FALSE, message |-> msg]

HTTPS == "https:"

\* a url is modelled by the outcome of new URL(url): whether it parses, its
\* protocol and its hostname
validateBackendUrl(url) ==
    IF ~url.parses
    THEN Invalid("Configuration invalid: Backend URL is malformed or insecure.")
    ELSE IF url.protocol # HTTPS
    THEN Invalid("Configuration invalid: Backend URL is malformed or insecure.")
    ELSE IF url.hostname = <<>>
    THEN Invalid("Configuration invalid: Backend URL is malformed or insecure.")
    ELSE Valid

isValidHeaderValue(headerValue) ==
    ~\E i \in 1..Len(headerValue) : IsControlChar(headerValue[i])

validateAuthConfig(authConfig) ==
    IF authConfig.header = <<>> \/ TrimIsEmpty(authConfig.header)
    THEN Invalid("Configuration invalid: Auth header name cannot be empty.")
    ELSE IF ~\A i \in 1..Len(authConfig.header) : IsTokenChar(authConfig.header[i])
    THEN Invalid("Configuration invalid: Auth header name contains invalid characters.")
    ELSE IF authConfig.value = <<>> \/ TrimIsEmpty(authConfig.value)
    THEN Invalid("Configuration invalid: Auth header value cannot be empty.")
    ELSE IF ~isValidHeaderValue(authConfig.value)
    THEN Invalid("Configuration invalid: Auth header value contains invalid characters.")
    ELSE Valid

\* authConfigs is an optional list; the loop returns the first failure
validateAuthConfigs(authConfigs) ==
    IF ~authConfigs.defined THEN Valid
    ELSE LET bad == {i \in 1..Len(authConfigs.v) :
                        ~validateAuthConfig(authConfigs.v[i]).isValid}
         IN IF bad = {} THEN Valid
            ELSE validateAuthConfig(authConfigs.v[CHOOSE i \in bad : \A j \in bad : i <= j])

validateAuthentication(auth, authHeader, authConfigs) ==
    IF ~validateAuthConfigs(authConfigs).isValid THEN validateAuthConfigs(authConfigs)
    ELSE IF authConfigs.defined /\ Len(authConfigs.v) > 0 THEN Valid
    ELSE IF ~Truthy(auth) THEN Valid
    ELSE IF TrimIsEmpty(auth.v)
    THEN Invalid("Configuration invalid: Authentication value cannot be empty.")
    ELSE IF Truthy(authHeader) /\ TrimIsEmpty(authHeader.v)
    THEN Invalid("Configuration invalid: Custom auth header name cannot be empty.")
    ELSE IF Truthy(authHeader)
            /\ ~\A i \in 1..Len(authHeader.v) :
                   authHeader.v[i] \in Letters \cup Digits \cup {"-"}
    THEN Invalid("Configuration invalid: Custom auth header name contains invalid characters.")
    ELSE Valid

\* headers is an optional list of [name, value] pairs (the entries of the
\* object, in insertion order)
validateHeaders(headers) ==
    IF ~headers.defined THEN Valid
    ELSE LET bad == {i \in 1..Len(headers.v) :
                        TrimIsEmpty(headers.v[i].name) \/ ~IsString(headers.v[i].value)}
             first == CHOOSE i \in bad : \A j \in bad : i <= j
         IN IF bad = {} THEN Valid
            ELSE IF TrimIsEmpty(headers.v[first].name)
            THEN Invalid("Configuration invalid: Header names must be non-empty strings.")
            ELSE Invalid("Configuration invalid: Header values must be strings.")

validateProcessedConfig(config) ==
    IF ~validateBackendUrl(config.url).isValid THEN validateBackendUrl(config.url)
    ELSE IF ~validateAuthentication(config.auth, config.authHeader, config.authConfigs).isValid
    THEN validateAuthentication(config.auth, config.authHeader, config.authConfigs)
    ELSE IF ~validateHeaders(config.headers).isValid THEN validateHeaders(config.headers)
    ELSE Valid

----------------------------------------------------------------------------
(* Config processing (secret interpolation of a whole config) *)

\* mutant: auth values are interpolated in non-strict mode
InterpolateEntries_NonStrict(configs, env) ==
    [ok |-> TRUE,
     v |-> [i \in 1..Len(configs) |->
              [header |-> configs[i].header,
               value |-> interpolateSecret(configs[i].value, env, FALSE).s]]]

\* configs.map(config => ({header, value: interpolateSecret(value, env, true)}))
\* (the map stops at the first entry whose interpolation throws)
InterpolateEntries(configs, env) ==
    IF \E i \in 1..Len(configs) : ~interpolateSecret(configs[i].value, env, TRUE).ok
    THEN LET first == CHOOSE i \in 1..Len(configs) :
                 /\ ~interpolateSecret(configs[i].value, env, TRUE).ok
                 /\ \A j \in 1..(i - 1) : interpolateSecret(configs[j].value, env, TRUE).ok
         IN [ok |-> FALSE,
             missing |-> interpolateSecret(configs[first].value, env, TRUE).missing]
    ELSE [ok |-> TRUE,
          v |-> [i \in 1..Len(configs) |->
                   [header |-> configs[i].header,
                    value |-> interpolateSecret(configs[i].value, env, TRUE).s]]]

\* mutant: configured header values are interpolated in strict mode
processServerConfig_StrictHeaders(config, env) ==
    LET authR == IF Truthy(config.auth)
                 THEN interpolateSecret(config.auth.v, env, TRUE)
                 ELSE [ok |-> TRUE, s |-> <<>>]
        entriesR == IF config.authConfigs.defined
                    THEN InterpolateEntries(config.authConfigs.v, env)
                    ELSE [ok |-> TRUE, v |-> <<>>]
        headersOk == \/ ~config.headers.defined
                     \/ \A i \in 1..Len(config.headers.v) :
                           /\ IsString(config.headers.v[i].value)
                           /\ interpolateSecret(config.headers.v[i].value, env, TRUE).ok
    IN IF ~authR.ok \/ ~entriesR.ok \/ ~headersOk THEN [ok |-> FALSE]
       ELSE [ok |-> TRUE,
             config |->
               [url |-> config.url,
                auth |-> IF Truthy(config.auth) THEN Some(authR.s) ELSE config.auth,
                authHeader |-> config.authHeader,
                authConfigs |-> IF config.authConfigs.defined
                                THEN Some(entriesR.v) ELSE None,
                headers |-> IF config.headers.defined
                            THEN Some([i \in 1..Len(config.headers.v) |->
                                   [name |-> config.headers.v[i].name,
                                    value |-> interpolateSecret(
                                        config.headers.v[i].value, env, TRUE).s]])
                            ELSE None]]

\* the result is [ok |-> TRUE, config |-> ...] or [ok |-> FALSE] when it throws
processServerConfig(config, env) ==
    LET authR == IF Truthy(config.auth)
                 THEN interpolateSecret(config.auth.v, env, TRUE)
                 ELSE [ok |-> TRUE, s |-> <<>>]
        entriesR == IF config.authConfigs.defined
                    THEN InterpolateEntries(config.authConfigs.v, env)
                    ELSE [ok |-> TRUE, v |-> <<>>]
        \* value.replace throws a TypeError on a value that is not a string
        headersOk == \/ ~config.headers.defined
                     \/ \A i \in 1..Len(config.headers.v) :
                           IsString(config.headers.v[i].value)
    IN IF ~authR.ok \/ ~entriesR.ok \/ ~headersOk THEN [ok |-> FALSE]
       ELSE [ok |-> TRUE,
             config |->
               [url |-> config.url,
                auth |-> IF Truthy(config.auth) THEN Some(authR.s) ELSE config.auth,
                authHeader |-> config.authHeader,
                authConfigs |-> IF config.authConfigs.defined
                                THEN Some(entriesR.v) ELSE None,
                headers |-> IF config.headers.defined
                            THEN Some([i \in 1..Len(config.headers.v) |->
                                   [name |-> config.headers.v[i].name,
                                    value |-> interpolateSecret(
                                        config.headers.v[i].value, env, FALSE).s]])
                            ELSE None]]

\* configs is the parsed JSON value: None stands for a falsy non-array value
\* (null), on which configs.map throws a TypeError; message is the message of
\* the error thrown
processGlobalAuthConfigs(configs, env) ==
    IF ~configs.defined
    THEN [ok |-> FALSE, message |-> <<"Cannot read properties of null (reading 'map')">>]
    ELSE LET entries == InterpolateEntries(configs.v, env) IN
         IF entries.ok THEN entries
         ELSE [ok |-> FALSE,
               message |-> <<"Missing required secret: ">> \o entries.missing]

----------------------------------------------------------------------------
(* Global auth loading.  A JSON text is modelled by what JSON.parse makes  *)
(* of it: kind "empty" (the empty string), "malformed" (parse throws),     *)
(* "null" (a falsy value), "object" (a truthy value that is no array) or   *)
(* "array" (items: the entries, a missing field being the empty string).   *)
(* error is the message of the SyntaxError that JSON.parse throws on the   *)
(* text, for the kinds on which it throws.  A message is a sequence of     *)
(* pieces of text.                                                         *)

JsonText(kind, items) ==
    [kind |-> kind, items |-> items,
     error |-> IF kind \in {"malformed", "empty"}
               THEN "Unexpected end of JSON input" ELSE ""]

\* another malformed text, on which JSON.parse throws another message
JsonTextInvalidToken ==
    [kind |-> "malformed", items |-> <<>>,
     error |-> "Unexpected token i in JSON at position 0"]

GlobalAuthResult(configs, hasGlobalAuth, error) ==
    [configs |-> configs, hasGlobalAuth |-> hasGlobalAuth, error |-> error]

NoGlobalAuth == GlobalAuthResult(Some(<<>>), FALSE, None)
GlobalAuthError(msg) == GlobalAuthResult(Some(<<>>), FALSE, Some(msg))

\* JSON.parse(configJson) as AuthConfig[] : None for a falsy value
ParsedConfigs(configJson) ==
    IF configJson.kind = "array" THEN Some(configJson.items) ELSE None

parseGlobalAuthConfig(configJson) ==
    IF configJson.kind \in {"malformed", "empty"}
    THEN GlobalAuthError(<<"Failed to parse global auth configuration: ", configJson.error>>)
    ELSE IF configJson.kind = "object"
    THEN GlobalAuthError(<<"Global auth configuration invalid: ",
                           "Configuration invalid: authConfigs must be an array.">>)
    ELSE IF ~validateAuthConfigs(ParsedConfigs(configJson)).isValid
    THEN GlobalAuthError(<<"Global auth configuration invalid: ",
                           validateAuthConfigs(ParsedConfigs(configJson)).message>>)
    ELSE GlobalAuthResult(ParsedConfigs(configJson), TRUE, None)

\* env.GLOBAL_AUTH_CONFIGS is an optional JSON text
loadGlobalAuthFromEnv(globalAuthConfig) ==
    IF ~globalAuthConfig.defined \/ globalAuthConfig.v.kind = "empty"
    THEN NoGlobalAuth
    ELSE parseGlobalAuthConfig(globalAuthConfig.v)

\* the store answers get('global-auth-configs') with
\* [throws |-> TRUE, message |-> the message of the error], or
\* [throws |-> FALSE, type |-> "null" | "string" | "other",
\* text |-> the JSON text of a string]
loadGlobalAuthFromKV(kvAnswer) ==
    IF kvAnswer.throws
    THEN GlobalAuthError(<<"Failed to load global auth from KV: ", kvAnswer.message>>)
    ELSE IF kvAnswer.type = "null" \/ (kvAnswer.type = "string" /\ kvAnswer.text.kind = "empty")
    THEN NoGlobalAuth
    ELSE IF kvAnswer.type # "string" THEN NoGlobalAuth
    ELSE parseGlobalAuthConfig(kvAnswer.text)

\* the interpolation step shared by both branches
InterpolateGlobal(result, secrets) ==
    LET processedConfigs == processGlobalAuthConfigs(result.configs, secrets) IN
    IF processedConfigs.ok
    THEN GlobalAuthResult(Some(processedConfigs.v), result.hasGlobalAuth, result.error)
    ELSE GlobalAuthError(<<"Global auth secret interpolation failed: ">>
                            \o processedConfigs.message)

loadGlobalAuthConfiguration(globalAuthConfig, kvAnswer, secrets) ==
    LET envResult == loadGlobalAuthFromEnv(globalAuthConfig)
        kvResult == loadGlobalAuthFromKV(kvAnswer)
    IN IF envResult.hasGlobalAuth THEN InterpolateGlobal(envResult, secrets)
       ELSE IF kvResult.hasGlobalAuth THEN InterpolateGlobal(kvResult, secrets)
       ELSE kvResult

----------------------------------------------------------------------------
(* Header processing *)

createHeaderExclusionSet(authConfigs) ==
    {ToLowerCase(authConfigs[i].header) : i \in 1..Len(authConfigs)}

\* originalHeaders.forEach: keys are the lower-cased names of the Headers object
createHeadersExcluding(originalHeaders, excludeHeaders) ==
    [k \in {n \in DOMAIN originalHeaders : ToLowerCase(n) \notin excludeHeaders} |->
        originalHeaders[k]]

createHeadersWithoutAuth(originalHeaders, authConfigs) ==
    createHeadersExcluding(originalHeaders, createHeaderExclusionSet(authConfigs))

\* the loop of addCustomHeaders over the entries from index i on; the result
\* is [ok |-> TRUE, headers |-> ...] or [ok |-> FALSE] when has/set throw
RECURSIVE AddCustomFrom(_, _, _)
AddCustomFrom(modifiedHeaders, customHeaders, i) ==
    IF i > Len(customHeaders) THEN [ok |-> TRUE, headers |-> modifiedHeaders]
    ELSE IF ~IsHeaderName(customHeaders[i].name) THEN [ok |-> FALSE]
    ELSE IF HeadersHas(modifiedHeaders, customHeaders[i].name)
    THEN AddCustomFrom(modifiedHeaders, customHeaders, i + 1)
    ELSE IF ~isValidHeaderValue(NormalizeValue(customHeaders[i].value))
    THEN [ok |-> FALSE]
    ELSE AddCustomFrom(
            HeadersSet(modifiedHeaders, customHeaders[i].name, customHeaders[i].value),
            customHeaders, i + 1)

\* mutant: a configured header replaces the header of the same name
RECURSIVE SetCustomFrom(_, _, _)
SetCustomFrom(modifiedHeaders, customHeaders, i) ==
    IF i > Len(customHeaders) THEN [ok |-> TRUE, headers |-> modifiedHeaders]
    ELSE IF ~IsHeaderName(customHeaders[i].name) THEN [ok |-> FALSE]
    ELSE IF ~isValidHeaderValue(NormalizeValue(customHeaders[i].value))
    THEN [ok |-> FALSE]
    ELSE SetCustomFrom(
            HeadersSet(modifiedHeaders, customHeaders[i].name, customHeaders[i].value),
            customHeaders, i + 1)

\* mutant: a configured header is appended to the header of the same name
RECURSIVE AppendCustomFrom(_, _, _)
AppendCustomFrom(modifiedHeaders, customHeaders, i) ==
    IF i > Len(customHeaders) THEN [ok |-> TRUE, headers |-> modifiedHeaders]
    ELSE IF ~IsHeaderName(customHeaders[i].name) THEN [ok |-> FALSE]
    ELSE IF ~isValidHeaderValue(NormalizeValue(customHeaders[i].value))
    THEN [ok |-> FALSE]
    ELSE IF HeadersHas(modifiedHeaders, customHeaders[i].name)
    THEN AppendCustomFrom(
            HeadersSet(modifiedHeaders, customHeaders[i].name,
                       modifiedHeaders[ToLowerCase(customHeaders[i].name)]
                          \o <<",", " ">> \o NormalizeValue(customHeaders[i].value)),
            customHeaders, i + 1)
    ELSE AppendCustomFrom(
            HeadersSet(modifiedHeaders, customHeaders[i].name, customHeaders[i].value),
            customHeaders, i + 1)

addCustomHeaders_Append(modifiedHeaders, customHeaders) ==
    AppendCustomFrom(modifiedHeaders, customHeaders, 1)

addCustomHeaders_Overwrite(modifiedHeaders, customHeaders) ==
    SetCustomFrom(modifiedHeaders, customHeaders, 1)

addCustomHeaders(modifiedHeaders, customHeaders) ==
    AddCustomFrom(modifiedHeaders, customHeaders, 1)

\* mutant: the configured headers are added before the auth headers are removed
processHeadersForProxy_AddFirst(requestHeaders, serverConfig, globalAuthConfigs) ==
    LET perServerAuthConfigs == mergeAuthConfigs(serverConfig)
        allAuthConfigs == globalAuthConfigs \o perServerAuthConfigs
        withCustom == addCustomHeaders(requestHeaders,
                        IF serverConfig.headers.defined THEN serverConfig.headers.v ELSE <<>>)
    IN IF ~withCustom.ok THEN [ok |-> FALSE]
       ELSE [ok |-> TRUE,
             headers |-> createHeadersWithoutAuth(withCustom.headers, allAuthConfigs)]

\* mutant: only the per-server auth headers are removed
processHeadersForProxy_ServerOnly(requestHeaders, serverConfig, globalAuthConfigs) ==
    LET perServerAuthConfigs == mergeAuthConfigs(serverConfig)
        processedHeaders == createHeadersWithoutAuth(requestHeaders, perServerAuthConfigs)
    IN addCustomHeaders(processedHeaders,
                        IF serverConfig.headers.defined THEN serverConfig.headers.v ELSE <<>>)

processHeadersForProxy(requestHeaders, serverConfig, globalAuthConfigs) ==
    LET perServerAuthConfigs == mergeAuthConfigs(serverConfig)
        allAuthConfigs == globalAuthConfigs \o perServerAuthConfigs
        processedHeaders == createHeadersWithoutAuth(requestHeaders, allAuthConfigs)
    IN addCustomHeaders(processedHeaders,
                        IF serverConfig.headers.defined THEN serverConfig.headers.v ELSE <<>>)

----------------------------------------------------------------------------
(* Inputs: strings *)

XK == <<"X", "-", "K">>
XA == <<"X", "-", "A">>
XT == <<"X", "-", "T">>
Other == <<"w">>

Tok == <<"t">>
TokUpper == <<"T">>
GTok == <<"g">>
CTok == <<"s">>
PhA == <<"$", "{", "A", "}">>
PhE == <<"$", "{", "E", "}">>
PhM == <<"$", "{", "M", "}">>
PhR == <<"$", "{", "R", "}">>

Entry(h, v) == [header |-> h, value |-> v]
Pair(n, v) == [name |-> n, value |-> v]

\* injective sequences of at most n elements of pool
ListsOver(pool, n) ==
    UNION {{l \in [1..k -> pool] : \A i, j \in 1..k : i # j => l[i] # l[j]} : k \in 0..n}

\* secret maps: A, R and E defined (R holds placeholder text, E is empty),
\* or A undefined
SecretsFull == [n \in {<<"A">>, <<"R">>, <<"E">>} |->
                  IF n = <<"A">> THEN Tok ELSE IF n = <<"R">> THEN PhA ELSE <<>>]
SecretsNoA == [n \in {<<"R">>, <<"E">>} |-> IF n = <<"R">> THEN PhA ELSE <<>>]
SecretEnvs == {SecretsFull, SecretsNoA}

----------------------------------------------------------------------------
(* Inputs: requests *)

\* new Headers(init) for a set of name/value pairs with distinct lower-cased names
NewHeaders(pairs) ==
    [k \in {ToLowerCase(p.name) : p \in pairs} |->
        (CHOOSE p \in pairs : ToLowerCase(p.name) = k).value]

RawHeaderPool ==
    {Pair(ToLowerCase(AUTHORIZATION), Tok), Pair(AUTHORIZATION, TokUpper),
     Pair(XK, Tok), Pair(XK, PhA), Pair(XK, <<>>),
     Pair(XA, GTok), Pair(Other, Tok)}

RawHeaderSets ==
    {S \in SUBSET RawHeaderPool :
        /\ Cardinality(S) <= MaxReqHeaders
        /\ \A p, q \in S : ToLowerCase(p.name) = ToLowerCase(q.name) => p = q}

Requests == {NewHeaders(S) : S \in RawHeaderSets}

\* url.pathname.split('/') without the leading empty piece
RootPath == <<>>
ApiPath == <<"api">>
ApiLongPath == <<"", "api", "users">>
WebPath == <<"web">>

\* the backend answers the fetch with a response of some status, or the
\* fetch rejects
Backends == {[up |-> TRUE, status |-> 200], [up |-> TRUE, status |-> 401],
             [up |-> FALSE, status |-> 0]}

----------------------------------------------------------------------------
(* Inputs: configuration *)

UrlHttps == [parses |-> TRUE, protocol |-> "https:", hostname |-> <<"h">>]
UrlHttp == [parses |-> TRUE, protocol |-> "http:", hostname |-> <<"h">>]
UrlBad == [parses |-> FALSE, protocol |-> "", hostname |-> <<>>]
UrlFile == [parses |-> TRUE, protocol |-> "file:", hostname |-> <<>>]

ServerConfig(url, auth, authHeader, authConfigs, headers) ==
    [url |-> url, auth |-> auth, authHeader |-> authHeader,
     authConfigs |-> authConfigs, headers |-> headers]

ServerEntryPool == {Entry(AUTHORIZATION, Tok), Entry(XK, PhA), Entry(ToLowerCase(XK), TokUpper)}

GlobalEntryPool == {Entry(XA, GTok), Entry(AUTHORIZATION, PhA), Entry(XK, PhE)}

\* the store: get(key) throws an error with some message, or answers with
\* the record of the key (null when there is none)
StoreWith(config) == [throws |-> FALSE, message |-> <<>>, servers |-> [k \in {"api"} |-> config]]
StoreFailing(msg) == [throws |-> TRUE, message |-> msg, servers |-> [k \in {} |-> {}]]

KvAnswer(type, text) == [throws |-> FALSE, message |-> "", type |-> type, text |-> text]
KvNull == KvAnswer("null", JsonText("empty", <<>>))
KvOther == KvAnswer("other", JsonText("empty", <<>>))
KvString(text) == KvAnswer("string", text)
KvThrowing(message) ==
    [throws |-> TRUE, message |-> message, type |-> "null", text |-> JsonText("empty", <<>>)]
KvThrows == KvThrowing("KV timeout")

ErrorConfigs ==
    {ServerConfig(UrlHttps, None, None, None, None),
     ServerConfig(UrlHttp, None, None, None, None),
     ServerConfig(UrlBad, Some(Tok), None, None, None),
     ServerConfig(UrlHttps, Some(Tok), None, None, None),
     ServerConfig(UrlHttps, Some(<<" ">>), None, None, None),
     ServerConfig(UrlHttps, Some(Tok), Some(<<"X", " ", "K">>),
                  Some(<<Entry(XA, Tok)>>), None),
     ServerConfig(UrlHttps, None, None, Some(<<Entry(XK, <<"t", "LF">>)>>), None),
     ServerConfig(UrlFile, Some(Tok), None, None, None),
     ServerConfig(UrlHttps, None, None, Some(<<Entry(<<"X", " ", "K">>, Tok)>>), None),
     ServerConfig(UrlHttps, Some(Tok), None, None, Some(<<Pair(<<" ">>, CTok)>>)),
     ServerConfig(UrlHttps, Some(Tok), None, None, Some(<<Pair(XT, NotAString)>>))}

ErrorEnvGlobals ==
    {None, Some(JsonText("empty", <<>>)), Some(JsonText("malformed", <<>>)),
     Some(JsonText("null", <<>>)), Some(JsonText("object", <<>>)),
     Some(JsonText("array", <<Entry(<<>>, GTok)>>)),
     Some(JsonText("array", <<Entry(XK, PhE)>>)),
     Some(JsonText("array", <<Entry(XA, GTok)>>))}

ErrorKvGlobals ==
    {KvNull, KvOther, KvThrows, KvString(JsonText("malformed", <<>>)),
     KvString(JsonText("array", <<Entry(XA, GTok)>>)),
     KvString(JsonText("array", <<Entry(XA, PhA)>>))}

\* two of the names, Authorization and authorization, are equal ignoring case
HeaderPool ==
    {Pair(XT, PhM \o <<"-">> \o PhA), Pair(AUTHORIZATION, CTok), Pair(Other, CTok),
     Pair(XA, PhR), Pair(<<"x", " ", "t">>, CTok),
     Pair(ToLowerCase(AUTHORIZATION), TokUpper)}

----------------------------------------------------------------------------
(* The request pipeline *)

VARIABLES
    secrets,            \* env[...] : the secrets of the environment
    envGlobal,          \* env.GLOBAL_AUTH_CONFIGS
    kvGlobal,           \* the store's answer for 'global-auth-configs'
    store,              \* env.PROXY_SERVERS for server keys
    path,               \* the segments of the request's pathname
    reqHeaders,         \* request.headers
    backend,            \* what the backend does with a fetch
    pc,                 \* position in processRequest
    serverKey,          \* requestContext.serverKey
    globalAuthConfigs,
    rawConfig,          \* configResult.data
    processedConfig,
    mergedAuthConfigs,
    authResult,
    outbound,           \* the headers of the backend request, once fetch is called
    response,
    log,                \* the stages completed so far, in order
    previous,           \* how the worker answered the request before this one
    call,               \* a call of interpolateSecret on its own: the value
                        \* and what each mode returned for it
    parseCount,         \* how often parseGlobalAuthConfig was called on
                        \* env.GLOBAL_AUTH_CONFIGS since the worker started
    lastIndex,          \* SECRET_PATTERN.lastIndex
    tested,             \* the latest call of hasSecretPlaceholders: its
                        \* value and its result
    suspended           \* a second request in flight, waiting at an await

vars == <<secrets, envGlobal, kvGlobal, store, path, reqHeaders, backend, pc,
          serverKey, globalAuthConfigs, rawConfig, processedConfig,
          mergedAuthConfigs, authResult, outbound, response, log, previous, call,
          parseCount, lastIndex, tested, suspended>>

\* what no stage of processRequest writes
aside == <<previous, call, lastIndex, tested, suspended>>

inputs == <<secrets, envGlobal, kvGlobal, store, path, reqHeaders, backend>>

NoResponse == [status |-> 0, body |-> <<>>, by |-> "none"]

\* createErrorResponse(message, status): the body is the message, a sequence
\* of pieces of text
createErrorResponse(message, status) == [status |-> status, body |-> message, by |-> "proxy"]

NOT_FOUND == 404
UNAUTHORIZED == 401
INTERNAL_SERVER_ERROR == 500
BAD_GATEWAY == 502

createInvalidRouteResponse ==
    createErrorResponse(<<"Invalid route: No server configured for this path.">>, NOT_FOUND)
createServerNotFoundResponse ==
    createErrorResponse(<<"Server not found: No configuration available for this route.">>, NOT_FOUND)
createServiceUnavailableResponse ==
    createErrorResponse(<<"Service unavailable: Unable to load configuration.">>, INTERNAL_SERVER_ERROR)
CONFIG_INVALID_REVIEW == "Configuration invalid: Server setup requires review."
createConfigInvalidResponse(message) == createErrorResponse(message, INTERNAL_SERVER_ERROR)
createUnauthorizedResponse ==
    createErrorResponse(<<"Unauthorized: Invalid or missing credentials.">>, UNAUTHORIZED)
createBackendUnavailableResponse ==
    createErrorResponse(<<"Backend unavailable: Target server is unreachable.">>, BAD_GATEWAY)
createInternalServerErrorResponse ==
    createErrorResponse(<<"Internal server error: An unexpected issue occurred.">>, INTERNAL_SERVER_ERROR)

SetInputs(sec, eg, kg, st, p, h, b) ==
    /\ secrets = sec
    /\ envGlobal = eg
    /\ kvGlobal = kg
    /\ store = st
    /\ path = p
    /\ reqHeaders = h
    /\ backend = b

\* authentication decisions: every combination of global list, legacy
\* fields, authConfigs and request headers over a valid url
AuthScenarios ==
    \E sec \in SecretEnvs,
       eg \in {None} \cup {Some(JsonText("array", l)) :
                             l \in ListsOver(GlobalEntryPool, MaxAuthEntries)},
       a \in {None, Some(Tok), Some(PhA)},
       ah \in {None, Some(XK)},
       ac \in {None} \cup {Some(l) : l \in ListsOver(ServerEntryPool, MaxAuthEntries)},
       h \in Requests :
        SetInputs(sec, eg, KvNull, StoreWith(ServerConfig(UrlHttps, a, ah, ac, None)),
                  ApiPath, h, [up |-> TRUE, status |-> 200])

\* failures of every stage: routes, store errors, global auth sources,
\* invalid urls and auth fields, backend outcomes
ErrorScenarios ==
    \E sec \in SecretEnvs, eg \in ErrorEnvGlobals, kg \in ErrorKvGlobals,
       st \in {StoreFailing(<<"KV", "timeout">>),
               StoreFailing(<<"No", "configuration", "found", "upstream">>)}
              \cup {StoreWith(c) : c \in ErrorConfigs},
       p \in {RootPath, ApiLongPath, WebPath},
       hs \in {{}, {Pair(XA, GTok), Pair(ToLowerCase(AUTHORIZATION), Tok)},
               {Pair(XK, <<>>)}},
       b \in Backends :
        SetInputs(sec, eg, kg, st, p, NewHeaders(hs), b)

\* configured headers: placeholders, names shared with auth headers and
\* with client headers
HeaderScenarios ==
    \E sec \in SecretEnvs,
       eg \in {None, Some(JsonText("array", <<Entry(XA, GTok)>>))},
       a \in {None, Some(Tok)},
       ac \in {None, Some(<<Entry(XK, Tok)>>)},
       hd \in ListsOver(HeaderPool, MaxHeaders),
       h \in Requests :
        SetInputs(sec, eg, KvNull,
                  StoreWith(ServerConfig(UrlHttps, a, None, ac, Some(hd))),
                  ApiPath, h, [up |-> TRUE, status |-> 200])

\* the worker has just started: nothing was parsed, the pattern object is
\* new, no other request is in flight
FreshWorker ==
    /\ parseCount = 0
    /\ lastIndex = 0
    /\ tested = None
    /\ suspended = None

\* processRequest is entered: nothing of the request has been computed
FreshRequest ==
    /\ pc = "start"
    /\ serverKey = ""
    /\ globalAuthConfigs = <<>>
    /\ rawConfig = None
    /\ processedConfig = None
    /\ mergedAuthConfigs = <<>>
    /\ authResult = None
    /\ outbound = None
    /\ response = NoResponse
    /\ log = <<>>

Init ==
    /\ AuthScenarios \/ ErrorScenarios \/ HeaderScenarios
    /\ FreshRequest
    /\ previous = None
    /\ call = None
    /\ FreshWorker

\* pathname.split('/').filter(Boolean)[0], None when there is no segment
getServerKey(pathname) ==
    LET segments == SelectSeq(pathname, LAMBDA seg : seg # "") IN
    IF Len(segments) > 0 THEN Some(segments[1]) ELSE None

\* return a response from processRequest
Respond(r) ==
    /\ response' = r
    /\ pc' = "done"

ExtractRequestContext ==
    /\ pc = "start"
    /\ IF getServerKey(path).defined
       THEN /\ serverKey' = getServerKey(path).v
            /\ pc' = "loadGlobal"
            /\ log' = Append(log, "key")
            /\ UNCHANGED response
       ELSE /\ Respond(createInvalidRouteResponse)
            /\ UNCHANGED <<serverKey, log>>
    /\ UNCHANGED <<inputs, aside, parseCount, globalAuthConfigs, rawConfig, processedConfig,
                   mergedAuthConfigs, authResult, outbound>>

LoadGlobalAuth ==
    /\ pc = "loadGlobal"
    /\ LET globalAuthResult == loadGlobalAuthConfiguration(envGlobal, kvGlobal, secrets) IN
       IF globalAuthResult.error.defined
       THEN /\ Respond(createConfigInvalidResponse(globalAuthResult.error.v))
            /\ UNCHANGED <<globalAuthConfigs, log>>
       ELSE /\ globalAuthConfigs' = globalAuthResult.configs.v
            /\ pc' = "loadServer"
            /\ log' = Append(log, "global")
            /\ UNCHANGED response
    /\ parseCount' = parseCount
                      + (IF envGlobal.defined /\ envGlobal.v.kind # "empty" THEN 1 ELSE 0)
    /\ UNCHANGED <<inputs, aside, serverKey, rawConfig, processedConfig,
                   mergedAuthConfigs, authResult, outbound>>

\* String.prototype.includes on messages, which are sequences of words
Includes(message, phrase) ==
    \E i \in 0..(Len(message) - Len(phrase)) :
        SubSeq(message, i + 1, i + Len(phrase)) = phrase

\* loadServerConfig: [success, data, error]
loadServerConfig(key, st) ==
    IF st.throws
    THEN [success |-> FALSE, data |-> None,
          error |-> <<"KV", "retrieval", "failed:">> \o st.message]
    ELSE IF key \notin DOMAIN st.servers
    THEN [success |-> FALSE, data |-> None,
          error |-> <<"No", "configuration", "found", "for", "server", "key:", key>>]
    ELSE [success |-> TRUE, data |-> Some(st.servers[key]), error |-> <<>>]

\* mutant: a missing record is answered like a store failure
LoadServerConfig_NotFoundAs500 ==
    /\ pc = "loadServer"
    /\ LET configResult == loadServerConfig(serverKey, store) IN
       IF ~configResult.success
       THEN /\ Respond(createServiceUnavailableResponse)
            /\ UNCHANGED <<rawConfig, log>>
       ELSE /\ rawConfig' = configResult.data
            /\ pc' = "process"
            /\ log' = Append(log, "server")
            /\ UNCHANGED response
    /\ UNCHANGED <<inputs, aside, parseCount, serverKey, globalAuthConfigs, processedConfig,
                   mergedAuthConfigs, authResult, outbound>>

LoadServerConfig ==
    /\ pc = "loadServer"
    /\ LET configResult == loadServerConfig(serverKey, store) IN
       IF ~configResult.success
       THEN /\ IF Includes(configResult.error, <<"No", "configuration", "found">>)
               THEN Respond(createServerNotFoundResponse)
               ELSE Respond(createServiceUnavailableResponse)
            /\ UNCHANGED <<rawConfig, log>>
       ELSE /\ rawConfig' = configResult.data
            /\ pc' = "process"
            /\ log' = Append(log, "server")
            /\ UNCHANGED response
    /\ UNCHANGED <<inputs, aside, parseCount, serverKey, globalAuthConfigs, processedConfig,
                   mergedAuthConfigs, authResult, outbound>>

ProcessConfig ==
    /\ pc = "process"
    /\ LET processed == processServerConfig(rawConfig.v, secrets) IN
       IF ~processed.ok
       THEN /\ Respond(createConfigInvalidResponse(<<CONFIG_INVALID_REVIEW>>))
            /\ UNCHANGED <<processedConfig, log>>
       ELSE /\ processedConfig' = Some(processed.config)
            /\ pc' = "validate"
            /\ log' = Append(log, "interpolated")
            /\ UNCHANGED response
    /\ UNCHANGED <<inputs, aside, parseCount, serverKey, globalAuthConfigs, rawConfig,
                   mergedAuthConfigs, authResult, outbound>>

\* mutant: a rejected config is passed on to the authentication check
ValidateConfig_Lenient ==
    /\ pc = "validate"
    /\ pc' = "auth"
    /\ log' = Append(log, "validated")
    /\ UNCHANGED response
    /\ UNCHANGED <<inputs, aside, parseCount, serverKey, globalAuthConfigs, rawConfig, processedConfig,
                   mergedAuthConfigs, authResult, outbound>>

ValidateConfig ==
    /\ pc = "validate"
    /\ LET validation == validateProcessedConfig(processedConfig.v) IN
       IF ~validation.isValid
       THEN /\ Respond(createConfigInvalidResponse(<<validation.message>>))
            /\ UNCHANGED log
       ELSE /\ pc' = "auth"
            /\ log' = Append(log, "validated")
            /\ UNCHANGED response
    /\ UNCHANGED <<inputs, aside, parseCount, serverKey, globalAuthConfigs, rawConfig, processedConfig,
                   mergedAuthConfigs, authResult, outbound>>

\* mutant: a denied request is forwarded all the same
Authenticate_ForwardOnDenial ==
    /\ pc = "auth"
    /\ mergedAuthConfigs' = mergeAuthConfigs(processedConfig.v)
    /\ LET result == checkTwoTierAuth(reqHeaders, globalAuthConfigs, mergedAuthConfigs') IN
       /\ authResult' = Some(result)
       /\ IF result.threw
          THEN /\ Respond(createInternalServerErrorResponse)
               /\ UNCHANGED log
          ELSE /\ pc' = "forward"
               /\ log' = Append(log, IF result.authenticated THEN "authenticated" ELSE "denied")
               /\ UNCHANGED response
    /\ UNCHANGED <<inputs, aside, parseCount, serverKey, globalAuthConfigs, rawConfig, processedConfig,
                   outbound>>

Authenticate ==
    /\ pc = "auth"
    /\ mergedAuthConfigs' = mergeAuthConfigs(processedConfig.v)
    /\ LET result == checkTwoTierAuth(reqHeaders, globalAuthConfigs, mergedAuthConfigs') IN
       /\ authResult' = Some(result)
       /\ IF result.threw
          THEN /\ Respond(createInternalServerErrorResponse)
               /\ UNCHANGED log
          ELSE IF ~result.authenticated
          THEN /\ Respond(createUnauthorizedResponse)
               /\ log' = Append(log, "denied")
          ELSE /\ pc' = "forward"
               /\ log' = Append(log, "authenticated")
               /\ UNCHANGED response
    /\ UNCHANGED <<inputs, aside, parseCount, serverKey, globalAuthConfigs, rawConfig, processedConfig,
                   outbound>>

\* mutant: an exception of the header processing leaves processRequest
Forward_Propagates ==
    /\ pc = "forward"
    /\ LET processedHeaders ==
             processHeadersForProxy(reqHeaders, processedConfig.v, globalAuthConfigs) IN
       IF ~processedHeaders.ok
       THEN /\ pc' = "done"
            /\ UNCHANGED <<response, outbound, log>>
       ELSE /\ outbound' = Some(processedHeaders.headers)
            /\ log' = Append(log, "fetch")
            /\ IF backend.up
               THEN Respond([status |-> backend.status, body |-> <<"backend">>, by |-> "backend"])
               ELSE Respond(createBackendUnavailableResponse)
    /\ UNCHANGED <<inputs, aside, parseCount, serverKey, globalAuthConfigs, rawConfig, processedConfig,
                   mergedAuthConfigs, authResult>>

\* header processing, construction of the backend request and the fetch
Forward ==
    /\ pc = "forward"
    /\ LET processedHeaders ==
             processHeadersForProxy(reqHeaders, processedConfig.v, globalAuthConfigs) IN
       IF ~processedHeaders.ok
       THEN /\ Respond(createInternalServerErrorResponse)
            /\ UNCHANGED <<outbound, log>>
       ELSE /\ outbound' = Some(processedHeaders.headers)
            /\ log' = Append(log, "fetch")
            /\ IF backend.up
               THEN Respond([status |-> backend.status, body |-> <<"backend">>, by |-> "backend"])
               ELSE Respond(createBackendUnavailableResponse)
    /\ UNCHANGED <<inputs, aside, parseCount, serverKey, globalAuthConfigs, rawConfig, processedConfig,
                   mergedAuthConfigs, authResult>>

Next ==
    \/ ExtractRequestContext
    \/ LoadGlobalAuth
    \/ LoadServerConfig
    \/ ProcessConfig
    \/ ValidateConfig
    \/ Authenticate
    \/ Forward

Spec == Init /\ [][Next]_vars

Done == pc = "done"

----------------------------------------------------------------------------
(* One request under every source of an exception, with the runtime's       *)
(* scheduling                                                               *)

\* configs whose headers or legacy auth header make the Headers object throw
ThrowingConfigs ==
    {ServerConfig(UrlHttps, None, None, None, Some(<<Pair(<<"x", " ", "t">>, CTok)>>)),
     ServerConfig(UrlHttps, None, None, None, Some(<<Pair(XT, <<"s", "LF">>)>>)),
     ServerConfig(UrlHttps, None, None, None, Some(<<Pair(XT, PhM)>>))}

InitHandling ==
    /\ \E sec \in SecretEnvs,
          hs \in {{}, {Pair(ToLowerCase(AUTHORIZATION), Tok)}},
          b \in {[up |-> TRUE, status |-> 200], [up |-> FALSE, status |-> 0]} :
            \/ \E st \in {StoreFailing(<<"KV", "timeout">>),
                           StoreFailing(<<"No", "configuration", "found", "upstream">>)}
                          \cup {StoreWith(c) : c \in ErrorConfigs \cup ThrowingConfigs} :
                  SetInputs(sec, None, KvNull, st, ApiLongPath, NewHeaders(hs), b)
            \/ \E eg \in {None, Some(JsonText("malformed", <<>>)),
                           Some(JsonText("array", <<Entry(XK, PhE)>>)),
                           Some(JsonText("array", <<Entry(XA, PhA)>>))},
                  kg \in {KvNull, KvThrows},
                  p \in {RootPath, ApiLongPath, WebPath} :
                  SetInputs(sec, eg, kg,
                            StoreWith(ServerConfig(UrlHttps, Some(PhA), None, None, None)),
                            p, NewHeaders(hs), b)
    /\ FreshRequest
    /\ previous = None
    /\ call = None
    /\ FreshWorker

\* every continuation of processRequest runs once the promise it awaits has
\* settled
Handling == InitHandling /\ [][Next]_vars /\ WF_vars(Next)

----------------------------------------------------------------------------
(* Two requests handled one after the other by the fetch handler *)

\* the branch of processRequest that returned the error response
FailureClass ==
    IF pc # "done" \/ response.by # "proxy" THEN "none"
    ELSE IF log = <<>> THEN "unresolved route"
    ELSE IF log = <<"key">> THEN "invalid global auth"
    ELSE IF log = <<"key", "global">>
    THEN (IF store.throws THEN "store failure" ELSE "server not found")
    ELSE IF log = <<"key", "global", "server">> THEN "invalid config"
    ELSE IF log = <<"key", "global", "server", "interpolated">> THEN "invalid config"
    ELSE IF log[Len(log)] = "denied" THEN "unauthorized"
    ELSE IF log[Len(log)] = "fetch" THEN "backend unreachable"
    ELSE "unexpected error"

\* requests that fail in every class, with different configuration values,
\* secret names and error texts: <<secrets, GLOBAL_AUTH_CONFIGS, the store's
\* global record, the store, path, headers, backend>>
FailureFamily ==
    {<<sec, eg, KvNull, st, p, NewHeaders({}), [up |-> FALSE, status |-> 0]>> :
        sec \in SecretEnvs,
        eg \in {None, Some(JsonText("array", <<Entry(XA, PhA)>>)),
                Some(JsonText("array", <<Entry(XA, PhM)>>))},
        st \in {StoreFailing(<<"KV", "timeout">>),
                StoreFailing(<<"No", "configuration", "found", "upstream">>)}
               \cup {StoreWith(c) : c \in ErrorConfigs},
        p \in {RootPath, ApiLongPath, WebPath}}
    \cup
    {<<SecretsFull, None, kg, StoreWith(ServerConfig(UrlHttps, a, None, None, None)),
       ApiPath, NewHeaders(hs), b>> :
        kg \in {KvString(JsonText("malformed", <<>>)), KvString(JsonTextInvalidToken),
                KvString(JsonText("object", <<>>)),
                KvString(JsonText("array", <<Entry(<<>>, GTok)>>)),
                KvThrows, KvThrowing("Network connection lost"), KvNull},
        a \in {Some(Tok), Some(TokUpper)},
        hs \in {{}, {Pair(AUTHORIZATION, Tok)}},
        b \in Backends}

\* how the request was answered: the response, the headers handed to the
\* backend, and the GLOBAL_AUTH_CONFIGS it was handled with
Outcome ==
    [class |-> FailureClass, status |-> response.status, body |-> response.body,
     by |-> response.by, outbound |-> outbound, envGlobal |-> envGlobal]

InitTwoRequests ==
    /\ \E f \in FailureFamily : SetInputs(f[1], f[2], f[3], f[4], f[5], f[6], f[7])
    /\ FreshRequest
    /\ previous = None
    /\ call = None
    /\ FreshWorker

\* the fetch handler is called with the next request, after the first was
\* answered
NextRequest ==
    /\ pc = "done"
    /\ ~previous.defined
    /\ previous' = Some(Outcome)
    /\ \E f \in FailureFamily :
          /\ secrets' = f[1]
          /\ envGlobal' = f[2]
          /\ kvGlobal' = f[3]
          /\ store' = f[4]
          /\ path' = f[5]
          /\ reqHeaders' = f[6]
          /\ backend' = f[7]
    /\ pc' = "start"
    /\ serverKey' = ""
    /\ globalAuthConfigs' = <<>>
    /\ rawConfig' = None
    /\ processedConfig' = None
    /\ mergedAuthConfigs' = <<>>
    /\ authResult' = None
    /\ outbound' = None
    /\ response' = NoResponse
    /\ log' = <<>>
    /\ UNCHANGED <<call, parseCount, lastIndex, tested, suspended>>

NextTwoRequests ==
    \/ ExtractRequestContext
    \/ LoadGlobalAuth
    \/ LoadServerConfig
    \/ ProcessConfig
    \/ ValidateConfig
    \/ Authenticate
    \/ Forward
    \/ NextRequest

TwoRequests == InitTwoRequests /\ [][NextTwoRequests]_vars

----------------------------------------------------------------------------
(* Two requests in flight at once: a request is handled alone, then again   *)
(* while a second request is in flight, over the same environment and store *)

\* the state of one call of processRequest
RequestState(id, p, h, at, key, globals, raw, processed, merged, auth, out, resp, stages) ==
    [id |-> id, path |-> p, reqHeaders |-> h, pc |-> at, serverKey |-> key,
     globalAuthConfigs |-> globals, rawConfig |-> raw, processedConfig |-> processed,
     mergedAuthConfigs |-> merged, authResult |-> auth, outbound |-> out,
     response |-> resp, log |-> stages]

\* a call of processRequest that has not run yet
Arrived(id, p, h) ==
    RequestState(id, p, h, "start", "", <<>>, None, None, <<>>, None, None, NoResponse, <<>>)

\* the call that is running, as a record
Running(id) ==
    RequestState(id, path, reqHeaders, pc, serverKey, globalAuthConfigs, rawConfig,
                 processedConfig, mergedAuthConfigs, authResult, outbound, response, log)

\* the event loop continues the call r
Resume(r) ==
    /\ path' = r.path
    /\ reqHeaders' = r.reqHeaders
    /\ pc' = r.pc
    /\ serverKey' = r.serverKey
    /\ globalAuthConfigs' = r.globalAuthConfigs
    /\ rawConfig' = r.rawConfig
    /\ processedConfig' = r.processedConfig
    /\ mergedAuthConfigs' = r.mergedAuthConfigs
    /\ authResult' = r.authResult
    /\ outbound' = r.outbound
    /\ response' = r.response
    /\ log' = r.log

\* the call that is running, "A" or "B"
RunningId == IF suspended.defined /\ suspended.v.id = "A" THEN "B" ELSE "A"

\* processRequest gives up control at its awaits only: before it has run,
\* while the global auth configuration or the server config is loaded, and
\* when it has returned
AtAwait == pc \in {"start", "loadGlobal", "loadServer", "done"}

ConcurrentPaths == {RootPath, ApiPath, WebPath}

ConcurrentHeaders ==
    {NewHeaders({}), NewHeaders({Pair(AUTHORIZATION, Tok)}),
     NewHeaders({Pair(XA, GTok), Pair(XT, Tok)}), NewHeaders({Pair(XK, Tok), Pair(Other, Tok)})}

ConcurrentStores ==
    {StoreFailing(<<"KV", "timeout">>),
     StoreWith(ServerConfig(UrlHttps, None, None, None, None)),
     StoreWith(ServerConfig(UrlHttps, Some(Tok), None, None, Some(<<Pair(XT, PhA)>>))),
     StoreWith(ServerConfig(UrlHttps, Some(PhA), None, Some(<<Entry(XK, PhA)>>),
                            Some(<<Pair(AUTHORIZATION, CTok), Pair(Other, PhM)>>)))}

InitConcurrent ==
    /\ \E sec \in SecretEnvs,
          eg \in {None, Some(JsonText("array", <<Entry(XA, GTok)>>))},
          st \in ConcurrentStores,
          p \in ConcurrentPaths,
          h \in ConcurrentHeaders,
          b \in {[up |-> TRUE, status |-> 200], [up |-> FALSE, status |-> 0]} :
            SetInputs(sec, eg, KvNull, st, p, h, b)
    /\ FreshRequest
    /\ previous = None
    /\ call = None
    /\ FreshWorker

\* the request that was handled alone arrives again, and with it a second
\* request; the environment, the store and the backend stay as they are
HandleTogether ==
    /\ pc = "done"
    /\ ~previous.defined
    /\ previous' = Some(Outcome)
    /\ Resume(Arrived("A", path, reqHeaders))
    /\ \E p \in ConcurrentPaths, h \in ConcurrentHeaders :
          suspended' = Some(Arrived("B", p, h))
    /\ UNCHANGED <<secrets, envGlobal, kvGlobal, store, backend, call, parseCount,
                   lastIndex, tested>>

\* mutant: the server key is kept in one place for all calls
Switch_SharedServerKey ==
    /\ previous.defined /\ suspended.defined
    /\ AtAwait
    /\ suspended' = Some(Running(RunningId))
    /\ Resume([suspended.v EXCEPT !.serverKey = serverKey])
    /\ UNCHANGED <<secrets, envGlobal, kvGlobal, store, backend, previous, call,
                   parseCount, lastIndex, tested>>

\* the running call waits at an await and the event loop continues the other
\* call: each call keeps its own locals
Switch ==
    /\ previous.defined /\ suspended.defined
    /\ AtAwait
    /\ suspended' = Some(Running(RunningId))
    /\ Resume(suspended.v)
    /\ UNCHANGED <<secrets, envGlobal, kvGlobal, store, backend, previous, call,
                   parseCount, lastIndex, tested>>

NextConcurrent ==
    \/ ExtractRequestContext
    \/ LoadGlobalAuth
    \/ LoadServerConfig
    \/ ProcessConfig
    \/ ValidateConfig
    \/ Authenticate
    \/ Forward
    \/ HandleTogether
    \/ Switch

Concurrent == InitConcurrent /\ [][NextConcurrent]_vars

----------------------------------------------------------------------------
(* interpolateSecret called on its own, in both modes, on one value *)

\* pieces of text of which the values are made
Pieces ==
    {<<"$", "{", "A", "}">>, <<"$", "{", "x", "-", "1", "}">>, <<"$", "{">>,
     <<"$">>, <<"}">>, <<"A">>, <<"A", "}">>, <<"{", "}">>}

RECURSIVE Concat(_)
Concat(seqs) == IF seqs = <<>> THEN <<>> ELSE Head(seqs) \o Concat(Tail(seqs))

InterpolationValues ==
    {Concat(l) : l \in UNION {[1..k -> Pieces] : k \in 0..MaxPieces}}

\* what a secret holds: plain text, nothing, a reference to itself or to the
\* other secret, and the beginning of a placeholder
SecretValues ==
    {<<"t">>, <<>>, <<"$", "{", "A", "}">>, <<"$", "{", "x", "-", "1", "}">>, <<"$", "{">>}

SecretNames == {<<"A">>, <<"x", "-", "1">>}

InterpolationEnvs ==
    UNION {[names -> SecretValues] : names \in SUBSET SecretNames}

InitInterpolation ==
    /\ \E env \in InterpolationEnvs :
          SetInputs(env, None, KvNull, StoreFailing(<<>>), RootPath,
                    NewHeaders({}), [up |-> FALSE, status |-> 0])
    /\ FreshRequest
    /\ previous = None
    /\ FreshWorker
    /\ \E value \in InterpolationValues :
          call = Some([value |-> value, strict |-> None, lenient |-> None])

\* what a call of a function of the secret interpolation module leaves alone
handling == <<inputs, pc, serverKey, globalAuthConfigs, rawConfig, processedConfig,
              mergedAuthConfigs, authResult, outbound, response, log, previous,
              parseCount, suspended>>

pipeline == <<handling, lastIndex, tested>>

\* interpolateSecret(value, env, true)
InterpolateStrict ==
    /\ call.defined /\ ~call.v.strict.defined
    /\ call' = Some([call.v EXCEPT !.strict = Some(interpolateSecret(call.v.value, secrets, TRUE))])
    /\ UNCHANGED pipeline

\* interpolateSecret(value, env, false)
InterpolateLenient ==
    /\ call.defined /\ ~call.v.lenient.defined
    /\ call' = Some([call.v EXCEPT !.lenient = Some(interpolateSecret(call.v.value, secrets, FALSE))])
    /\ UNCHANGED pipeline

NextInterpolation == InterpolateStrict \/ InterpolateLenient

Interpolation == InitInterpolation /\ [][NextInterpolation]_vars

----------------------------------------------------------------------------
(* The functions that share the pattern object SECRET_PATTERN, called in    *)
(* any order.  The pattern has the g flag, so test and exec start at        *)
(* lastIndex and leave the end of the match there.                          *)

\* SECRET_PATTERN.test(value) with the pattern's lastIndex at from: the
\* result and the lastIndex it leaves (0-based, the end of the match, or 0
\* when nothing matched)
RegExpTest(value, from) ==
    LET starts == {i \in (from + 1)..Len(value) : SECRET_PATTERN(value, i) > 0} IN
    IF from > Len(value) \/ starts = {}
    THEN [result |-> FALSE, lastIndex |-> 0]
    ELSE LET i == CHOOSE k \in starts : \A j \in starts : k <= j IN
         [result |-> TRUE, lastIndex |-> i + SECRET_PATTERN(value, i) + 2]

\* values with no, one and two placeholders, and with text before one
PatternValues ==
    {<<>>, <<"A">>, <<"$", "{">>, PhA, <<"A">> \o PhA, PhA \o <<"$", "{", "x", "-", "1", "}">>}

InitPatternCalls ==
    /\ \E env \in {SecretsFull, SecretsNoA} :
          SetInputs(env, None, KvNull, StoreFailing(<<>>), RootPath,
                    NewHeaders({}), [up |-> FALSE, status |-> 0])
    /\ FreshRequest
    /\ previous = None
    /\ call = None
    /\ FreshWorker

\* hasSecretPlaceholders(value)
HasSecretPlaceholders ==
    \E value \in PatternValues :
       /\ tested' = Some([value |-> value, result |-> RegExpTest(value, lastIndex).result])
       /\ lastIndex' = RegExpTest(value, lastIndex).lastIndex
       /\ UNCHANGED <<handling, call>>

\* extractSecretNames(value): lastIndex is set to 0 before the loop of exec
\* and after it
ExtractSecretNames ==
    \E value \in PatternValues :
       /\ lastIndex' = 0
       /\ UNCHANGED <<handling, call, tested>>

\* interpolateSecret(value, env): String.prototype.replace with a pattern
\* that has the g flag sets lastIndex to 0 and leaves it there
InterpolateSecretCall ==
    \E value \in PatternValues :
       /\ call' = Some([value |-> value, strict |-> None,
                        lenient |-> Some(interpolateSecret(value, secrets, FALSE))])
       /\ lastIndex' = 0
       /\ UNCHANGED <<handling, tested>>

NextPatternCalls ==
    \/ HasSecretPlaceholders
    \/ ExtractSecretNames
    \/ InterpolateSecretCall

PatternCalls == InitPatternCalls /\ [][NextPatternCalls]_vars

----------------------------------------------------------------------------
(* Notions used by the properties *)

\* the request carries a header named like the entry (ignoring case) whose
\* value is exactly the entry's value
CarriesExactly(headers, entry) ==
    \E k \in DOMAIN headers : k = ToLowerCase(entry.header) /\ headers[k] = entry.value

\* the same, for a non-empty value
Matches(headers, entry) ==
    \E k \in DOMAIN headers :
        k = ToLowerCase(entry.header) /\ headers[k] = entry.value /\ headers[k] # <<>>

AnyMatches(headers, entries) == \E i \in 1..Len(entries) : Matches(headers, entries[i])

AnsweredByProxy(status) == pc = "done" /\ response.by = "proxy" /\ response.status = status

AllStages == <<"key", "global", "server", "interpolated", "validated", "authenticated", "fetch">>

\* C1: the backend is fetched only after the server key was extracted, the
\* global auth configuration loaded without error, the server config was
\* found, interpolation succeeded, validation accepted the config and the
\* two-tier check authenticated the request, in this order; a denial is
\* answered 401 without a fetch.
C1_FetchOnlyAfterAllStages ==
    /\ outbound.defined =>
          /\ log = AllStages
          /\ getServerKey(path).defined
          /\ ~loadGlobalAuthConfiguration(envGlobal, kvGlobal, secrets).error.defined
          /\ loadServerConfig(serverKey, store).success
          /\ processServerConfig(rawConfig.v, secrets).ok
          /\ validateProcessedConfig(processedConfig.v).isValid
          /\ authResult.defined /\ authResult.v.authenticated
    /\ (authResult.defined /\ ~authResult.v.threw /\ ~authResult.v.authenticated) =>
          /\ AnsweredByProxy(401)
          /\ ~outbound.defined
          /\ "fetch" \notin {log[i] : i \in 1..Len(log)}

C1_Witness ==
    /\ pc = "done" /\ outbound.defined /\ response.by = "backend"
    /\ Len(globalAuthConfigs) > 0 /\ Len(mergedAuthConfigs) > 0

\* C2: with a non-empty global list of which no entry matches the request and
\* an empty merged per-server list, the check denies and the answer is 401.
C2_EmptyServerListDoesNotFallOpen ==
    (/\ authResult.defined
     /\ Len(globalAuthConfigs) > 0
     /\ ~AnyMatches(reqHeaders, globalAuthConfigs)
     /\ mergedAuthConfigs = <<>>)
    => /\ ~authResult.v.authenticated
       /\ AnsweredByProxy(401)
       /\ ~outbound.defined

C2_Witness ==
    /\ authResult.defined /\ Len(globalAuthConfigs) > 0 /\ mergedAuthConfigs = <<>>
    /\ DOMAIN reqHeaders # {}
    /\ AnsweredByProxy(401)

\* a JSON text that is present but malformed or fails AuthEntry validation
InvalidGlobalSource(text) ==
    \/ text.kind \in {"malformed", "null", "object"}
    \/ /\ text.kind = "array"
       /\ \E i \in 1..Len(text.items) : ~validateAuthConfig(text.items[i]).isValid

\* C3: a global auth source that is present but malformed or invalid (the
\* environment variable, or the store's record when the variable is absent)
\* makes every routed request end in 500; it is never treated as absent.
C3_InvalidGlobalSourceIs500 ==
    (/\ pc = "done"
     /\ getServerKey(path).defined
     /\ \/ envGlobal.defined /\ InvalidGlobalSource(envGlobal.v)
        \/ /\ ~envGlobal.defined
           /\ ~kvGlobal.throws /\ kvGlobal.type = "string"
           /\ InvalidGlobalSource(kvGlobal.text))
    => AnsweredByProxy(500)

\* C4: when the global list and the merged per-server list are both empty
\* the check authenticates without global auth, whatever the headers.
C4_NothingConfiguredAllows ==
    (authResult.defined /\ globalAuthConfigs = <<>> /\ mergedAuthConfigs = <<>>)
    => /\ ~authResult.v.threw
       /\ authResult.v.authenticated
       /\ ~authResult.v.usedGlobalAuth

C4_Witness ==
    /\ authResult.defined /\ globalAuthConfigs = <<>> /\ mergedAuthConfigs = <<>>
    /\ Cardinality(DOMAIN reqHeaders) = 2
    /\ outbound.defined

ReferencesMissingSecret(value, env) ==
    \E i \in 1..Len(value) :
        /\ SECRET_PATTERN(value, i) > 0
        /\ SubSeq(value, i + 2, i + 1 + SECRET_PATTERN(value, i)) \notin DOMAIN env

\* the entries of the global source in effect: the variable when it holds a
\* valid array, otherwise the store's record when that holds one
EffectiveGlobalEntries ==
    IF envGlobal.defined /\ envGlobal.v.kind = "array" /\ ~InvalidGlobalSource(envGlobal.v)
    THEN envGlobal.v.items
    ELSE IF /\ ~kvGlobal.throws /\ kvGlobal.type = "string"
            /\ kvGlobal.text.kind = "array" /\ ~InvalidGlobalSource(kvGlobal.text)
    THEN kvGlobal.text.items
    ELSE <<>>

GlobalAuthMissesSecret ==
    \E i \in 1..Len(EffectiveGlobalEntries) :
        ReferencesMissingSecret(EffectiveGlobalEntries[i].value, secrets)

ServerAuthMissesSecret(config) ==
    \/ Truthy(config.auth) /\ ReferencesMissingSecret(config.auth.v, secrets)
    \/ /\ config.authConfigs.defined
       /\ \E i \in 1..Len(config.authConfigs.v) :
             ReferencesMissingSecret(config.authConfigs.v[i].value, secrets)

WithPlaceholders(value, env) ==
    LET missing == {SubSeq(value, i + 2, i + 1 + SECRET_PATTERN(value, i)) :
                      i \in {j \in 1..Len(value) : SECRET_PATTERN(value, j) > 0}}
                   \ DOMAIN env
    IN [n \in DOMAIN env \cup missing |->
          IF n \in DOMAIN env THEN env[n] ELSE <<"$", "{">> \o n \o <<"}">>]

\* the configured value with defined placeholders substituted and undefined
\* ones left as they are
PlaceholdersKept(value, env) == interpolateSecret(value, WithPlaceholders(value, env), TRUE).s

\* some configured header of the stored config has a value that is no string
HasNonStringHeader(config) ==
    /\ config.headers.defined
    /\ \E i \in 1..Len(config.headers.v) : config.headers.v[i].value = NotAString

\* C9: a configured header value that references an undefined secret does
\* not fail the request (the header values being strings, processing fails
\* only on a missing authentication secret): the processed value keeps the
\* literal placeholder and has the defined placeholders substituted, and it
\* is what the backend receives under a name the client did not send.
C9_HeaderPlaceholderFallback ==
    /\ (/\ rawConfig.defined /\ pc # "process"
        /\ ~ServerAuthMissesSecret(rawConfig.v)
        /\ ~HasNonStringHeader(rawConfig.v))
          => processedConfig.defined
    /\ (processedConfig.defined /\ rawConfig.v.headers.defined) =>
          /\ processedConfig.v.headers.defined
          /\ Len(processedConfig.v.headers.v) = Len(rawConfig.v.headers.v)
          /\ \A i \in 1..Len(rawConfig.v.headers.v) :
                processedConfig.v.headers.v[i] =
                    Pair(rawConfig.v.headers.v[i].name,
                         PlaceholdersKept(rawConfig.v.headers.v[i].value, secrets))
    /\ (outbound.defined /\ rawConfig.v.headers.defined) =>
          \A i \in 1..Len(rawConfig.v.headers.v) :
             LET name == ToLowerCase(rawConfig.v.headers.v[i].name) IN
             (/\ name \notin DOMAIN reqHeaders
              /\ \A j \in 1..(i - 1) : ToLowerCase(rawConfig.v.headers.v[j].name) # name)
             => /\ name \in DOMAIN outbound.v
                /\ outbound.v[name] =
                      PlaceholdersKept(rawConfig.v.headers.v[i].value, secrets)

C9_Witness ==
    /\ pc = "done" /\ response.by = "backend"
    /\ outbound.defined
    /\ secrets = SecretsFull
    /\ rawConfig.v.headers.defined
    /\ \E i \in 1..Len(rawConfig.v.headers.v) :
          /\ rawConfig.v.headers.v[i] = Pair(XT, PhM \o <<"-">> \o PhA)
          /\ ReferencesMissingSecret(rawConfig.v.headers.v[i].value, secrets)
    /\ ToLowerCase(XT) \in DOMAIN outbound.v
    /\ outbound.v[ToLowerCase(XT)] = <<"$", "{", "M", "}", "-", "t">>

\* C10: in every forwarded request, a header named like a global entry or
\* like an entry of the merged per-server list (ignoring case) is not the
\* client's: it is absent, or it is a configured header added after the
\* stripping.
C10_AuthHeadersStripped ==
    outbound.defined =>
       \A i \in 1..Len(globalAuthConfigs \o mergedAuthConfigs) :
          LET name == ToLowerCase((globalAuthConfigs \o mergedAuthConfigs)[i].header) IN
          name \in DOMAIN outbound.v =>
             /\ processedConfig.v.headers.defined
             /\ \E j \in 1..Len(processedConfig.v.headers.v) :
                   /\ ToLowerCase(processedConfig.v.headers.v[j].name) = name
                   /\ outbound.v[name] = processedConfig.v.headers.v[j].value

\* allowed by the per-server tier while the request also carries the global
\* header, and allowed by the global tier while it carries a per-server one
C10_Witness ==
    /\ outbound.defined
    /\ Len(globalAuthConfigs) > 0 /\ Len(mergedAuthConfigs) > 0
    /\ \E i \in 1..Len(globalAuthConfigs) :
          ToLowerCase(globalAuthConfigs[i].header) \in DOMAIN reqHeaders
    /\ \E i \in 1..Len(mergedAuthConfigs) :
          ToLowerCase(mergedAuthConfigs[i].header) \in DOMAIN reqHeaders
    /\ DOMAIN outbound.v = {}

\* the configured headers of the processed config, in insertion order
ConfiguredHeaders ==
    IF processedConfig.defined /\ processedConfig.v.headers.defined
    THEN processedConfig.v.headers.v ELSE <<>>

\* the lower-cased header names of the global and merged per-server entries
ExclusionNames ==
    {ToLowerCase((globalAuthConfigs \o mergedAuthConfigs)[i].header) :
        i \in 1..Len(globalAuthConfigs \o mergedAuthConfigs)}

\* the client sent no header of that name, or the name was stripped
AbsentAfterStripping(name) == name \notin DOMAIN reqHeaders \/ name \in ExclusionNames

\* no earlier configured header has the name of the i-th, ignoring case
FirstOfName(hs, i) ==
    \A j \in 1..(i - 1) : ToLowerCase(hs[j].name) # ToLowerCase(hs[i].name)

\* the first configured header named like the i-th, ignoring case
FirstNamedLike(hs, i) ==
    hs[CHOOSE j \in 1..i :
          /\ ToLowerCase(hs[j].name) = ToLowerCase(hs[i].name)
          /\ FirstOfName(hs, j)]

ModernEntries ==
    IF processedConfig.defined /\ processedConfig.v.authConfigs.defined
    THEN processedConfig.v.authConfigs.v ELSE <<>>

\* the processed config has a legacy auth value
HasLegacyAuth ==
    /\ processedConfig.defined
    /\ processedConfig.v.auth.defined
    /\ processedConfig.v.auth.v # <<>>

\* authHeader, or "Authorization" when authHeader is absent
EffectiveLegacyName ==
    IF processedConfig.v.authHeader.defined /\ processedConfig.v.authHeader.v # <<>>
    THEN processedConfig.v.authHeader.v
    ELSE <<"A", "u", "t", "h", "o", "r", "i", "z", "a", "t", "i", "o", "n">>

\* some authConfigs entry has the effective legacy name, ignoring case
LegacyNameTaken ==
    \E i \in 1..Len(ModernEntries) :
        ToLowerCase(ModernEntries[i].header) = ToLowerCase(EffectiveLegacyName)

\* the request presents the legacy value under the effective legacy name
PresentsLegacy ==
    /\ ToLowerCase(EffectiveLegacyName) \in DOMAIN reqHeaders
    /\ reqHeaders[ToLowerCase(EffectiveLegacyName)] = processedConfig.v.auth.v

C14_LegacyDroppedOnConflict ==
    (authResult.defined /\ HasLegacyAuth /\ LegacyNameTaken) =>
       /\ mergedAuthConfigs = ModernEntries
       /\ (/\ PresentsLegacy
           /\ ~AnyMatches(reqHeaders, globalAuthConfigs)
           /\ ~\E i \in 1..Len(ModernEntries) :
                 /\ ToLowerCase(ModernEntries[i].header) # ToLowerCase(EffectiveLegacyName)
                 /\ Matches(reqHeaders, ModernEntries[i]))
          => /\ ~authResult.v.threw
             /\ authResult.v.authenticated <=>
                   \E i \in 1..Len(ModernEntries) :
                      /\ ToLowerCase(ModernEntries[i].header) = ToLowerCase(EffectiveLegacyName)
                      /\ ModernEntries[i].value = processedConfig.v.auth.v
             /\ ~authResult.v.authenticated => (AnsweredByProxy(401) /\ ~outbound.defined)

\* the legacy value differs from the modern value of the same header and
\* the request that presents it is denied
C14_Witness ==
    /\ authResult.defined /\ HasLegacyAuth /\ LegacyNameTaken
    /\ PresentsLegacy
    /\ mergedAuthConfigs = ModernEntries
    /\ ~authResult.v.authenticated
    /\ AnsweredByProxy(401)

\* C15: once validation has accepted the server config, the merged list has
\* no two entries whose header names are equal ignoring case.
C15_MergedNamesUnique ==
    authResult.defined =>
       \A i, j \in 1..Len(mergedAuthConfigs) :
          i # j => ToLowerCase(mergedAuthConfigs[i].header)
                     # ToLowerCase(mergedAuthConfigs[j].header)

\* the request was answered 500 with neither an authentication decision nor
\* a backend request
FailedClosedBeforeAuth ==
    /\ AnsweredByProxy(500)
    /\ ~authResult.defined
    /\ mergedAuthConfigs = <<>>
    /\ ~outbound.defined
    /\ \A i \in 1..Len(log) : log[i] \notin {"authenticated", "denied", "fetch"}

C17_OneBodyPerFailureClass ==
    (/\ previous.defined
     /\ previous.v.class # "none"
     /\ FailureClass = previous.v.class)
    => response.body = previous.v.body

\* the path has no non-empty segment
NoSegment == \A i \in 1..Len(path) : path[i] = ""

\* the first non-empty segment of the path
FirstSegment == path[CHOOSE i \in 1..Len(path) :
                        path[i] # "" /\ \A j \in 1..(i - 1) : path[j] = ""]

\* the store answers, and has no record for the server key of the path
NoRecordForKey == ~NoSegment /\ ~store.throws /\ FirstSegment \notin DOMAIN store.servers

PlaceholderStarts(value) == {i \in 1..Len(value) : SECRET_PATTERN(value, i) > 0}

\* C19: when every secret that the value references is defined, strict and
\* non-strict interpolation return the same string; a value without any
\* placeholder is returned unchanged by both.
C19_ModesAgreeWhenResolvable ==
    call.defined =>
       /\ (/\ call.v.strict.defined /\ call.v.lenient.defined
           /\ ~ReferencesMissingSecret(call.v.value, secrets))
          => /\ call.v.strict.v.ok
             /\ call.v.lenient.v.ok
             /\ call.v.strict.v.s = call.v.lenient.v.s
       /\ (call.v.strict.defined /\ PlaceholderStarts(call.v.value) = {})
          => (call.v.strict.v.ok /\ call.v.strict.v.s = call.v.value)
       /\ (call.v.lenient.defined /\ PlaceholderStarts(call.v.value) = {})
          => (call.v.lenient.v.ok /\ call.v.lenient.v.s = call.v.value)

\* both modes substituted two placeholders of a value with other text
C19_Witness ==
    /\ call.defined
    /\ call.v.strict.defined /\ call.v.lenient.defined
    /\ Cardinality(PlaceholderStarts(call.v.value)) = 2
    /\ ~ReferencesMissingSecret(call.v.value, secrets)
    /\ call.v.strict.v.ok
    /\ call.v.strict.v.s = call.v.lenient.v.s
    /\ call.v.strict.v.s # call.v.value

\* what the position k of the original value contributes to the output: the
\* secret (or the placeholder itself when the secret is undefined) where a
\* placeholder starts, nothing inside a placeholder, the character elsewhere
PieceAt(value, env, k) ==
    IF k \in PlaceholderStarts(value)
    THEN LET name == SubSeq(value, k + 2, k + 1 + SECRET_PATTERN(value, k)) IN
         IF name \in DOMAIN env THEN env[name]
         ELSE SubSeq(value, k, k + 2 + SECRET_PATTERN(value, k))
    ELSE IF \E i \in PlaceholderStarts(value) :
               i < k /\ k <= i + 2 + SECRET_PATTERN(value, i)
    THEN <<>>
    ELSE <<value[k]>>

\* the output of one pass over the original value
SinglePass(value, env) == Concat([k \in 1..Len(value) |-> PieceAt(value, env, k)])

\* C20: every call returns, and what it returns is made in one pass over
\* the original value: each placeholder of the original is replaced by its
\* secret's text as it is, placeholders inside that text included, and the
\* rest is copied; strict mode fails exactly when a placeholder of the
\* original names an undefined secret.
C20_SinglePassNoRescan ==
    call.defined =>
       /\ call.v.lenient.defined =>
             /\ call.v.lenient.v.ok
             /\ call.v.lenient.v.s = SinglePass(call.v.value, secrets)
       /\ call.v.strict.defined =>
             /\ call.v.strict.v.ok <=> ~ReferencesMissingSecret(call.v.value, secrets)
             /\ call.v.strict.v.ok =>
                   call.v.strict.v.s = SinglePass(call.v.value, secrets)

\* two secrets that reference each other: the output holds the placeholder
\* of the second, although that secret is defined
C20_Witness ==
    /\ call.defined
    /\ call.v.strict.defined /\ call.v.lenient.defined
    /\ DOMAIN secrets = {<<"A">>, <<"x", "-", "1">>}
    /\ secrets[<<"A">>] = <<"$", "{", "x", "-", "1", "}">>
    /\ secrets[<<"x", "-", "1">>] = <<"$", "{", "A", "}">>
    /\ call.v.value = <<"$", "{", "A", "}", "A", "$", "{", "A", "}">>
    /\ call.v.strict.v.ok
    /\ call.v.strict.v.s = <<"$", "{", "x", "-", "1", "}", "A", "$", "{", "x", "-", "1", "}">>
    /\ call.v.lenient.v.s = call.v.strict.v.s

\* C21: the Header Processor applied to its own output, with the same global
\* entries, per-server entries and configured headers, gives that output
\* again.
C21_HeaderProcessingIdempotent ==
    processedConfig.defined =>
       LET once == processHeadersForProxy(reqHeaders, processedConfig.v, globalAuthConfigs) IN
       /\ once.ok =>
             processHeadersForProxy(once.headers, processedConfig.v, globalAuthConfigs) = once
       /\ outbound.defined => once.ok /\ outbound.v = once.headers

\* the backend request lost an authentication header of the client, kept
\* another header of the client and gained a configured header, and
\* processing it again leaves it as it is
C21_Witness ==
    /\ outbound.defined
    /\ \E name \in DOMAIN reqHeaders : name \notin DOMAIN outbound.v
    /\ \E name \in DOMAIN reqHeaders : name \in DOMAIN outbound.v
    /\ \E name \in DOMAIN outbound.v : name \notin DOMAIN reqHeaders
    /\ processHeadersForProxy(outbound.v, processedConfig.v, globalAuthConfigs)
          = [ok |-> TRUE, headers |-> outbound.v]

\* the global auth stage has run: it answered the request or handed its
\* list to the next stage
GlobalAuthLoaded == pc \notin {"start", "loadGlobal"} /\ getServerKey(path).defined

\* C22: when GLOBAL_AUTH_CONFIGS is set, the outcome of the global auth stage
\* (the list handed on, or the error answered) is the one the variable gives
\* with no record in the store, whatever the store holds.
C22_VariableAloneDecides ==
    (GlobalAuthLoaded /\ envGlobal.defined /\ envGlobal.v.kind # "empty") =>
       LET alone == loadGlobalAuthConfiguration(envGlobal, KvNull, secrets) IN
       IF alone.error.defined
       THEN /\ AnsweredByProxy(500)
            /\ response.body = alone.error.v
            /\ log = <<"key">>
       ELSE /\ Len(log) >= 2 /\ log[2] = "global"
            /\ globalAuthConfigs = alone.configs.v

\* the rules of an auth entry: a non-empty header name of HTTP token
\* characters, a value that is non-empty after trimming and free of control
\* characters
ValidAuthEntry(entry) ==
    /\ IsHeaderName(entry.header)
    /\ ~TrimIsEmpty(entry.value)
    /\ isValidHeaderValue(entry.value)

\* C23: every entry of the merged per-server list handed to the two-tier
\* check satisfies the rules of an auth entry, an entry made from the legacy
\* auth/authHeader fields included; a processed config whose merged list has
\* an entry that violates them is answered 500 before the check.
C23_MergedEntriesValid ==
    /\ authResult.defined =>
          \A i \in 1..Len(mergedAuthConfigs) : ValidAuthEntry(mergedAuthConfigs[i])
    /\ (/\ pc = "done" /\ processedConfig.defined
        /\ \E i \in 1..Len(mergeAuthConfigs(processedConfig.v)) :
               ~ValidAuthEntry(mergeAuthConfigs(processedConfig.v)[i]))
       => FailedClosedBeforeAuth

\* C24: over the requests one worker handles with the same
\* GLOBAL_AUTH_CONFIGS, the variable is parsed at most once: the second
\* request reuses the result of the first.
C24_GlobalAuthParsedAtMostOnce ==
    (previous.defined /\ previous.v.envGlobal = envGlobal) => parseCount <= 1

\* the store was asked for the record of the server key and threw
ServerLookupFailed ==
    /\ pc = "done"
    /\ Len(log) >= 2 /\ log[2] = "global"
    /\ store.throws

\* C25: when the store lookup for the server key fails with an error the
\* request is answered 500, whatever the error, and is not forwarded.
C25_StoreErrorIs500 ==
    ServerLookupFailed =>
       /\ AnsweredByProxy(500)
       /\ ~rawConfig.defined
       /\ ~outbound.defined

\* the call "A", running or waiting, once the worker handles two requests
CallA == IF RunningId = "A" THEN Running("A") ELSE suspended.v

\* C26: a request handled while another request is in flight, over the same
\* environment and store, gets the response and the backend headers it got
\* when it was handled alone, whatever the interleaving of the two.
C26_AnsweredAsWhenAlone ==
    (previous.defined /\ suspended.defined /\ CallA.pc = "done") =>
       /\ CallA.response.status = previous.v.status
       /\ CallA.response.body = previous.v.body
       /\ CallA.response.by = previous.v.by
       /\ CallA.outbound = previous.v.outbound

\* both calls have returned, each for a different server key and each
\* having loaded the global auth configuration, and the first was forwarded
\* with the headers it had when handled alone
C26_Witness ==
    /\ previous.defined /\ suspended.defined
    /\ CallA.pc = "done" /\ CallA.response.by = "backend"
    /\ CallA.outbound = previous.v.outbound
    /\ RunningId = "A"
    /\ suspended.v.pc = "done"
    /\ suspended.v.serverKey # "" /\ suspended.v.serverKey # serverKey
    /\ parseCount = 3

Returned ==
    /\ response.by \in {"proxy", "backend"}
    /\ response.by = "proxy" => response.status \in {404, 401, 500, 502}
    /\ response.by = "backend" =>
          /\ outbound.defined /\ backend.up
          /\ response.status = backend.status

\* an exception was raised: by the store, by the interpolation of the
\* config, by headers.get in the auth check, by the header building, or by
\* the fetch
Raised ==
    \/ ServerLookupFailed
    \/ log = <<"key", "global", "server">>
    \/ authResult.defined /\ authResult.v.threw
    \/ Len(log) = 6 /\ log[6] = "authenticated"
    \/ outbound.defined /\ ~backend.up

\* C28: every call of processRequest returns, with one Response that is not
\* replaced afterwards; whatever was raised on the way is answered by the
\* proxy with 404, 401, 500 or 502 and does not leave processRequest.
C28_AlwaysOneResponse ==
    /\ [](pc = "done" => Returned)
    /\ []((pc = "done" /\ Raised) => response.by = "proxy")
    /\ [][response # NoResponse => response' = response]_vars
    /\ <>(pc = "done")

\* the header building threw after the request was authenticated, and the
\* request was answered 500
C28_Witness ==
    /\ pc = "done"
    /\ Len(log) = 6 /\ log[6] = "authenticated"
    /\ ~outbound.defined
    /\ AnsweredByProxy(500)

\* C29: hasSecretPlaceholders(v) is true iff v holds a placeholder, whatever
\* calls of hasSecretPlaceholders, extractSecretNames and interpolateSecret
\* came before it.
C29_HasPlaceholdersIsStateless ==
    tested.defined =>
       (tested.v.result <=> PlaceholderStarts(tested.v.value) # {})

\* C30: every entry of the global list that the two-tier check uses
\* satisfies, after secret interpolation, the rules of an auth entry; a
\* global entry whose interpolated value violates them is answered 500 by
\* the global auth stage.
C30_GlobalEntriesValidAfterInterpolation ==
    /\ GlobalAuthLoaded /\ Len(log) >= 2 =>
          \A i \in 1..Len(globalAuthConfigs) : ValidAuthEntry(globalAuthConfigs[i])
    /\ authResult.defined =>
          \A i \in 1..Len(globalAuthConfigs) : ValidAuthEntry(globalAuthConfigs[i])

====
